---- MODULE Spec2Model ----
(***************************************************************************)
(* Model of nsq-client-rs.                                                 *)
(*                                                                         *)
(* Two programs live in the repository and each gets its own               *)
(* specification over its own variables:                                   *)
(*   SpecActor   - the actix actor Connection of src/conn.rs               *)
(*   SpecReactor - the mio reactor Client::run, its control relay thread   *)
(*                 and its worker threads of src/client.rs                 *)
(***************************************************************************)
EXTENDS Integers, Sequences, FiniteSets, TLC

(***************************************************************************)
(* Bounds of the model.                                                    *)
(***************************************************************************)
MaxWritten == 5    \* commands recorded as written through cell
MaxMsgs == 3       \* message entries delivered to registered handlers
MaxFins == 3       \* Fin messages handled
MaxBatch == 2      \* entries of one Cmd::ResponseMsg frame
MaxHandlers == 2   \* AddHandler<Msg> messages handled
MaxRdy == 2        \* largest count of a Ready message / initial rdy / max_rdy_count
MaxRestarts == 1   \* supervisor restarts

(***************************************************************************)
(* u32 arithmetic. A u32 is kept as two 16-bit limbs so that the wrapped   *)
(* value 2^32 - 1 of a release build is represented exactly.               *)
(***************************************************************************)
Limb == 2^16

U32Of(n) == [hi |-> n \div Limb, lo |-> n % Limb]

U32Max == [hi |-> Limb - 1, lo |-> Limb - 1]

U32Zero == U32Of(0)

\* x + 1 modulo 2^32
U32Inc(x) ==
    IF x.lo = Limb - 1
    THEN [hi |-> (x.hi + 1) % Limb, lo |-> 0]
    ELSE [hi |-> x.hi, lo |-> x.lo + 1]

\* x - 1 modulo 2^32
U32Dec(x) ==
    IF x.lo = 0
    THEN [hi |-> (x.hi - 1) % Limb, lo |-> Limb - 1]
    ELSE [hi |-> x.hi, lo |-> x.lo - 1]

(***************************************************************************)
(* Commands (crate::commands) as they are handed to cell.write.            *)
(***************************************************************************)
Command(c, a) == [cmd |-> c, arg |-> a]
Magic == Command("Magic", 0)
Identify == Command("Identify", 0)
SubCmd == Command("Sub", 0)
NopCmd == Command("Nop", 0)
FinCmd == Command("Fin", 0)
RdyCmd(n) == Command("Rdy", n)

RdyCounts == 0..MaxRdy

\* The payload of a plain response: a negotiation payload that decodes as
\* NsqdConfig, or text (such as "OK") that does not.
NotJson == [json |-> FALSE, auth_required |-> FALSE, max_rdy_count |-> 0]
NsqdConfigs ==
    [json : {TRUE}, auth_required : BOOLEAN, max_rdy_count : 1..MaxRdy]
Payloads == NsqdConfigs \cup {NotJson}

\* The mark left in routes where the supervisor restarted the actor.
Restarted == -1

\* No response that does not decode was handled in Neg on this connection.
NoMalformed == -1

(***************************************************************************)
(* The actor Connection (src/conn.rs).                                     *)
(***************************************************************************)
VARIABLES
    state,            \* Connection.state : ConnState
    cell,             \* Connection.cell is Some(..)
    rdy,              \* Connection.rdy
    in_flight,        \* Connection.in_flight : u32
    handler_ready,    \* Connection.handler_ready
    handlers,         \* Connection.handlers (recipient ids)
    ctx,              \* the actor's context: "new", "connecting", "running",
                      \* "stopped" (the supervisor restarts it), "panicked"
    items,            \* messages the actor sent itself with ctx.notify
    resume_timers,    \* run_later closures that will notify Resume
    stop_timer,       \* a run_later closure that will call ctx.stop()
    stream,           \* the FramedRead stream is attached to the context
    awaiting,         \* written commands the daemon still answers with a response
    written,          \* the commands handed to the current cell's write, in order
    neg,              \* the negotiation payload decoded on this connection
    malformed,        \* history: -1, or the number of commands written when a response
                      \* that does not decode was handled in Neg on this connection
    restarts,         \* supervisor restarts so far
    routes,           \* history: the handler indices the entries were routed to since the
                      \* handlers last changed, with Restarted where the actor was restarted
    delivered,        \* history: entries of ResponseMsg frames seen with a handler registered
    handed,           \* history: entries whose do_send returned Ok
    fins,             \* history: Fin messages handled
    fin_excess,       \* history: "none", or a Fin was handled when fins = handed
                      \* ("handed"), or when fins = delivered ("delivered")
    other_input,      \* history: an input other than the connect result and the
                      \* daemon's plain responses was handled
    err_pending       \* a once(Err(Error::NotConnected)) stream was added

actor_vars ==
    <<state, cell, rdy, in_flight, handler_ready, handlers, ctx, items,
      resume_timers, stop_timer, stream, awaiting, written, neg, malformed, restarts, delivered, routes, handed, fins, fin_excess,
      other_input, err_pending>>

\* The state of the reactor of client.rs (Client::run and its threads).
VARIABLES
    conn_state,       \* conn.state : State
    need_response,    \* conn.need_response
    heartbeat,        \* conn.heartbeat
    interest,         \* the readiness CONNECTION is registered for ("none": closed)
    pending,          \* commands queued in conn and not yet written
    sent,             \* commands written to the socket, in order
    nsqd_config,      \* nsqd_config of Client::run
    secret,           \* self.secret (NoSecret: None)
    client_rdy,       \* self.rdy
    loop_pc,          \* "poll", "events", "exited" (process::exit), "panicked"
    evts,             \* the events of the current batch not yet handled
    hb_expired,       \* last_heartbeat.elapsed() > 45 s
    in_cmd,           \* self.in_cmd: the control queue of the owner
    relay_pc,         \* the control relay thread: "recv", "signal", "forward"
    relay_msg,        \* the command the relay thread holds
    r_inner_cmd,      \* the queue between the relay thread and the reactor
    cmd_readiness,    \* a readiness set by the relay and not yet polled
    cmd_wakes,        \* readiness set through cmd_readiness reaches the poll
    msg_channel,      \* self.msg_channel
    on_close,         \* per worker: calls of on_close
    on_msg,           \* per worker: calls of on_msg
    out_info,         \* IsConnected(connected: false) events sent to the owner
    visited,          \* history: the values conn.state has taken, in order
    closes,           \* history: Close commands handled by the reactor
    watchdogs,        \* history: sentinels sent by the watchdog
    controls,         \* history: control commands put on in_cmd
    frames            \* history: message frames read in Started

\* The commands of the workers: Context::send, the wake relay thread of
\* Client::run and the command queue.
VARIABLES
    cmd_channel,      \* self.cmd_channel: commands sent and not yet taken
    sentinel,         \* self.sentinel: notifications sent and not yet received
    wake_pc,          \* the wake relay thread: "recv", "signal"
    client_readiness, \* a readiness set by the wake relay and not yet polled
    client_wakes,     \* readiness set through set_readiness reaches the poll
    send_pc,          \* per worker: "idle", or "notify" inside Context::send
    emitted,          \* per worker: calls of Context::send
    taken             \* history: the commands the reactor took, in order

send_vars ==
    <<cmd_channel, sentinel, wake_pc, client_readiness, client_wakes, send_pc,
      emitted, taken>>

reactor_vars ==
    <<conn_state, need_response, heartbeat, interest, pending, sent,
      nsqd_config, secret, client_rdy, loop_pc, evts, hb_expired, in_cmd,
      relay_pc, relay_msg, r_inner_cmd, cmd_readiness, cmd_wakes,
      msg_channel, on_close, on_msg, out_info, visited, closes, watchdogs,
      controls, frames, send_vars>>

vars == <<actor_vars, reactor_vars>>

\* Connection::new: ConnState::Neg, no cell, no handlers, rdy as configured.
ConnectionNew ==
    /\ state = "Neg"
    /\ cell = FALSE
    /\ rdy \in 1..MaxRdy
    /\ in_flight = U32Zero
    /\ handler_ready = 0
    /\ handlers = <<>>

ActorInit ==
    /\ ConnectionNew
    /\ ctx = "new"
    /\ items = <<>>
    /\ resume_timers = 0
    /\ stop_timer = FALSE
    /\ stream = FALSE
    /\ awaiting = <<>>
    /\ written = <<>>
    /\ neg = NotJson
    /\ malformed = NoMalformed
    /\ restarts = 0
    /\ delivered = 0
    /\ routes = <<>>
    /\ handed = 0
    /\ fins = 0
    /\ fin_excess = "none"
    /\ other_input = FALSE
    /\ err_pending = FALSE

(***************************************************************************)
(* Writing through cell: `if let Some(ref mut cell) = self.cell`.          *)
(***************************************************************************)
CanWrite == Len(written) < MaxWritten

\* A timer that is set fires whatever has been written since: the messages
\* that set one are bounded so that the scheduled writes stay bounded.
CanSchedule == Len(written) + resume_timers < MaxWritten

CellWrite(c) == IF cell THEN Append(written, c) ELSE written

\* The daemon answers Identify and Sub with a plain response.
Expect(c) == IF cell THEN Append(awaiting, c.cmd) ELSE awaiting

Item(m, n) == [msg |-> m, n |-> n]

(***************************************************************************)
(* Actor::started and the supervisor.                                      *)
(***************************************************************************)
started ==
    /\ ctx = "new"
    /\ handler_ready' = Len(handlers)
    /\ ctx' = "connecting"
    /\ UNCHANGED <<state, cell, rdy, in_flight, handlers, items, resume_timers,
                   stop_timer, stream, awaiting, written, neg, malformed,
                   restarts, delivered, routes, handed, fins, fin_excess, other_input,
                   err_pending>>
    /\ UNCHANGED reactor_vars

\* restarting without the test of ConnState::Stopped.
restarting_Always == "start"

\* Supervised::restarting: a Connection stopped by Cls stops its new context
\* at once, so that nothing is handled in it; any other is started again.
restarting == IF state = "Stopped" THEN "stop" ELSE "start"

\* The supervisor gives the stopped actor a fresh context (the streams, timers
\* and notified messages of the old one are dropped; the actor's fields are
\* kept), calls restarting and then started.
Restart ==
    /\ ctx = "stopped"
    /\ restarting = "start"
    /\ restarts < MaxRestarts
    /\ restarts' = restarts + 1
    /\ items' = <<>>
    /\ resume_timers' = 0
    /\ stop_timer' = FALSE
    /\ err_pending' = FALSE
    /\ stream' = FALSE
    /\ handler_ready' = Len(handlers)
    /\ ctx' = "connecting"
    /\ other_input' = TRUE
    /\ routes' = Append(routes, Restarted)
    /\ UNCHANGED <<state, cell, rdy, in_flight, handlers, awaiting, written,
                   neg, malformed, delivered, handed, fins, fin_excess>>
    /\ UNCHANGED reactor_vars

(***************************************************************************)
(* Handler<TcpConnect>.                                                    *)
(***************************************************************************)
TcpConnectOk ==
    /\ ctx = "connecting"
    /\ written' = <<Magic, Identify>>
    /\ awaiting' = <<"Identify">>
    /\ stream' = TRUE
    /\ cell' = TRUE
    /\ state' = "Neg"
    /\ neg' = NotJson
    /\ malformed' = NoMalformed
    /\ ctx' = "running"
    /\ UNCHANGED <<rdy, in_flight, handler_ready, handlers, items,
                   resume_timers, stop_timer, restarts,
                   delivered, routes, handed, fins, fin_excess, other_input,
                   err_pending>>
    /\ UNCHANGED reactor_vars

\* serde_json::to_string(&act.config) fails: ctx.stop() before the write half
\* becomes the cell.
TcpConnectConfigErr ==
    /\ ctx = "connecting"
    /\ ctx' = "stopped"
    /\ other_input' = TRUE
    /\ UNCHANGED <<state, cell, rdy, in_flight, handler_ready, handlers, items,
                   resume_timers, stop_timer, stream, awaiting, written, neg, malformed,
                   restarts, delivered, routes, handed, fins, fin_excess, err_pending>>
    /\ UNCHANGED reactor_vars

\* Both error arms: tcp_backoff has no max_elapsed_time, so next_backoff is
\* Some and a ctx.stop() is scheduled.
TcpConnectErr ==
    /\ ctx = "connecting"
    /\ stop_timer' = TRUE
    /\ ctx' = "running"
    /\ other_input' = TRUE
    /\ UNCHANGED <<state, cell, rdy, in_flight, handler_ready, handlers, items,
                   resume_timers, stream, awaiting, written, neg, malformed, restarts, delivered, routes, handed, fins,
                   fin_excess, err_pending>>
    /\ UNCHANGED reactor_vars

StopTimer ==
    /\ ctx = "running"
    /\ stop_timer
    /\ stop_timer' = FALSE
    /\ ctx' = "stopped"
    /\ UNCHANGED <<state, cell, rdy, in_flight, handler_ready, handlers, items,
                   resume_timers, stream, awaiting, written, neg, malformed, restarts, delivered, routes, handed, fins,
                   fin_excess, other_input, err_pending>>
    /\ UNCHANGED reactor_vars

(***************************************************************************)
(* StreamHandler<Cmd, Error>: the frames decoded from the socket.          *)
(***************************************************************************)
Reading == ctx = "running" /\ stream

\* finished (the daemon closed the stream): ctx.stop().
StreamFinished ==
    /\ Reading
    /\ ctx' = "stopped"
    /\ other_input' = TRUE
    /\ UNCHANGED <<state, cell, rdy, in_flight, handler_ready, handlers, items,
                   resume_timers, stop_timer, stream, awaiting, written, neg, malformed, restarts, delivered, routes, handed, fins,
                   fin_excess, err_pending>>
    /\ UNCHANGED reactor_vars

\* error (a frame that does not decode, or the NotConnected error a handler
\* raised): Running::Stop.
StreamError ==
    /\ ctx = "running"
    /\ stream \/ err_pending
    /\ ctx' = "stopped"
    /\ other_input' = TRUE
    /\ UNCHANGED <<state, cell, rdy, in_flight, handler_ready, handlers, items,
                   resume_timers, stop_timer, stream, awaiting, written, neg, malformed, restarts, delivered, routes, handed, fins,
                   fin_excess, err_pending>>
    /\ UNCHANGED reactor_vars

\* WriteHandler::error: Running::Stop.
WriteError ==
    /\ ctx = "running"
    /\ cell
    /\ ctx' = "stopped"
    /\ other_input' = TRUE
    /\ UNCHANGED <<state, cell, rdy, in_flight, handler_ready, handlers, items,
                   resume_timers, stop_timer, stream, awaiting, written, neg, malformed, restarts, delivered, routes, handed, fins,
                   fin_excess, err_pending>>
    /\ UNCHANGED reactor_vars

HandleHeartbeat ==
    /\ Reading
    /\ CanWrite
    /\ written' = CellWrite(NopCmd)
    /\ ctx' = IF cell THEN ctx ELSE "stopped"
    /\ other_input' = TRUE
    /\ UNCHANGED <<state, cell, rdy, in_flight, handler_ready, handlers, items,
                   resume_timers, stop_timer, stream, awaiting, neg, malformed, restarts, delivered, routes, handed, fins,
                   fin_excess, err_pending>>
    /\ UNCHANGED reactor_vars

\* What the daemon answers to the command at the head of awaiting: the
\* negotiation payload (or text that is none) to Identify, "OK" to Sub.
Answers == IF Head(awaiting) = "Identify" THEN Payloads ELSE {NotJson}

\* Negotiate with the test of auth_required inverted.
Negotiate_Inverted(payload) ==
    IF ~payload.json THEN "stop"
    ELSE IF payload.auth_required THEN "Sub" ELSE "Auth"

\* Cmd::Response in ConnState::Neg: the message the actor notifies itself
\* with, or "stop" when the payload does not decode.
Negotiate(payload) ==
    IF ~payload.json THEN "stop"
    ELSE IF payload.auth_required THEN "Auth" ELSE "Sub"

\* Cmd::Response(s): the messages notified, by state.
ResponseNotifies(payload) ==
    CASE state = "Neg" ->
           IF Negotiate(payload) = "stop" THEN <<>>
           ELSE <<Item(Negotiate(payload), 0)>>
      [] state = "Sub" -> <<Item("Sub", 0)>>
      [] state = "Ready" -> <<Item("Ready", rdy)>>
      [] OTHER -> <<>>

HandleResponse ==
    /\ Reading
    /\ awaiting # <<>>
    /\ \E payload \in Answers :
        /\ items' = items \o ResponseNotifies(payload)
        /\ ctx' = IF state = "Neg" /\ Negotiate(payload) = "stop"
                  THEN "stopped" ELSE ctx
        /\ neg' = IF state = "Neg" /\ payload.json THEN payload ELSE neg
        /\ malformed' = IF state = "Neg" /\ ~payload.json
                        THEN Len(written) ELSE malformed
    /\ awaiting' = Tail(awaiting)
    /\ UNCHANGED <<state, cell, rdy, in_flight, handler_ready, handlers,
                   resume_timers, stop_timer, stream, written, restarts, delivered, routes, handed, fins,
                   fin_excess, other_input, err_pending>>
    /\ UNCHANGED reactor_vars

\* Cmd::ResponseError(s): logged. The daemon sends it in place of a response.
HandleResponseError ==
    /\ Reading
    /\ awaiting # <<>>
    /\ awaiting' = Tail(awaiting)
    /\ other_input' = TRUE
    /\ UNCHANGED <<state, cell, rdy, in_flight, handler_ready, handlers, items,
                   resume_timers, stop_timer, stream, written, neg, malformed, ctx, restarts, delivered, routes, handed, fins,
                   fin_excess, err_pending>>
    /\ UNCHANGED reactor_vars

\* DispatchOne with in_flight incremented whatever do_send returned.
DispatchOne_CountsFailed(acc, ok, overflow_checks) ==
    LET hr1 == IF acc.hr > 0 THEN acc.hr - 1 ELSE acc.hr
        found == hr1 < Len(handlers)
        handoff == found /\ ok
        hr2 == IF hr1 = 0 THEN Len(handlers) ELSE hr1
    IN  [hr |-> hr2,
         inf |-> IF found THEN U32Inc(acc.inf) ELSE acc.inf,
         routed |-> acc.routed + (IF found THEN 1 ELSE 0),
         sent |-> acc.sent + (IF handoff THEN 1 ELSE 0),
         idxs |-> IF found THEN Append(acc.idxs, hr1) ELSE acc.idxs,
         panic |-> FALSE]

\* DispatchOne with handler_ready left at 0 once it got there.
DispatchOne_NoReset(acc, ok, overflow_checks) ==
    LET hr1 == IF acc.hr > 0 THEN acc.hr - 1 ELSE acc.hr
        found == hr1 < Len(handlers)
        handoff == found /\ ok
        overflow == handoff /\ acc.inf = U32Max /\ overflow_checks
    IN  IF overflow
        THEN [acc EXCEPT !.panic = TRUE]
        ELSE [hr |-> hr1,
              inf |-> IF handoff THEN U32Inc(acc.inf) ELSE acc.inf,
              routed |-> acc.routed + (IF found THEN 1 ELSE 0),
              sent |-> acc.sent + (IF handoff THEN 1 ELSE 0),
              idxs |-> IF found THEN Append(acc.idxs, hr1) ELSE acc.idxs,
              panic |-> FALSE]

\* One entry of Cmd::ResponseMsg(msgs). `ok` is the result of do_send (Err
\* when the recipient's mailbox is closed). handlers holds Recipient<Msg>
\* only, so the downcast succeeds whenever the index is in range.
DispatchOne(acc, ok, overflow_checks) ==
    LET hr1 == IF acc.hr > 0 THEN acc.hr - 1 ELSE acc.hr
        found == hr1 < Len(handlers)
        handoff == found /\ ok
        overflow == handoff /\ acc.inf = U32Max /\ overflow_checks
        hr2 == IF hr1 = 0 THEN Len(handlers) ELSE hr1
    IN  IF overflow
        THEN [acc EXCEPT !.panic = TRUE]
        ELSE [hr |-> hr2,
              inf |-> IF handoff THEN U32Inc(acc.inf) ELSE acc.inf,
              routed |-> acc.routed + (IF found THEN 1 ELSE 0),
              sent |-> acc.sent + (IF handoff THEN 1 ELSE 0),
              idxs |-> IF found THEN Append(acc.idxs, hr1) ELSE acc.idxs,
              panic |-> FALSE]

\* The loop over the entries of one frame.
RECURSIVE Dispatch(_, _, _)
Dispatch(acc, oks, overflow_checks) ==
    IF oks = <<>> \/ acc.panic THEN acc
    ELSE Dispatch(DispatchOne(acc, Head(oks), overflow_checks), Tail(oks),
                  overflow_checks)

DoSendResults == UNION {[1..n -> BOOLEAN] : n \in 1..MaxBatch}

HandleResponseMsg ==
    /\ Reading
    /\ \E oks \in DoSendResults, overflow_checks \in BOOLEAN :
        LET r == Dispatch([hr |-> handler_ready, inf |-> in_flight,
                           routed |-> 0, sent |-> 0, idxs |-> <<>>,
                           panic |-> FALSE], oks,
                          overflow_checks)
        IN  /\ delivered + r.routed <= MaxMsgs
            /\ handler_ready' = r.hr
            /\ in_flight' = r.inf
            /\ delivered' = delivered + r.routed
            /\ routes' = routes \o r.idxs
            /\ handed' = handed + r.sent
            /\ ctx' = IF r.panic THEN "panicked" ELSE ctx
    /\ other_input' = TRUE
    /\ UNCHANGED <<state, cell, rdy, handlers, items, resume_timers,
                   stop_timer, stream, awaiting, written, neg, malformed, restarts, fins, fin_excess, err_pending>>
    /\ UNCHANGED reactor_vars

\* Cmd::Command(_): rdy(1) is written; self.rdy is not touched.
HandleCommand ==
    /\ Reading
    /\ CanWrite
    /\ written' = CellWrite(RdyCmd(1))
    /\ other_input' = TRUE
    /\ UNCHANGED <<state, cell, rdy, in_flight, handler_ready, handlers, items,
                   resume_timers, stop_timer, stream, awaiting, neg, malformed, ctx, restarts, delivered, routes, handed, fins,
                   fin_excess, err_pending>>
    /\ UNCHANGED reactor_vars

(***************************************************************************)
(* The message handlers. Each of the operators below is the body of one    *)
(* Handler<M>::handle over the fields it can touch; the actions after them *)
(* say where the message came from (another actor, ctx.notify, a timer).   *)
(***************************************************************************)
\* self.in_flight -= 1 on a u32: at 0 a build with overflow checks panics
\* and a build without them wraps to 2^32 - 1.
FinUnderflows == in_flight = U32Zero

FinInFlight(overflow_checks) ==
    IF FinUnderflows /\ overflow_checks THEN in_flight ELSE U32Dec(in_flight)

FinHandle(overflow_checks) ==
    /\ written' = CellWrite(FinCmd)
    /\ in_flight' = FinInFlight(overflow_checks)
    /\ ctx' = IF FinUnderflows /\ overflow_checks THEN "panicked" ELSE ctx
    /\ UNCHANGED <<state, rdy, awaiting, err_pending>>

\* Handler<Ready>: the state after the message.
ReadyState == IF state = "Started" THEN state ELSE "Started"

ReadyHandle(n) ==
    /\ written' = CellWrite(RdyCmd(n))
    /\ rdy' = IF state = "Started" THEN n ELSE rdy
    /\ state' = ReadyState
    /\ UNCHANGED <<in_flight, awaiting, ctx, err_pending>>

\* Handler<Auth>: the command written is sub(topic, channel).
AuthWrites == SubCmd

AuthHandle ==
    /\ written' = CellWrite(AuthWrites)
    /\ awaiting' = Expect(AuthWrites)
    /\ ctx' = IF cell THEN ctx ELSE "stopped"
    /\ state' = "Auth"
    /\ UNCHANGED <<in_flight, rdy, err_pending>>

SubHandle ==
    /\ written' = CellWrite(SubCmd)
    /\ awaiting' = Expect(SubCmd)
    /\ ctx' = IF cell THEN ctx ELSE "stopped"
    /\ state' = "Ready"
    /\ UNCHANGED <<in_flight, rdy, err_pending>>

ResumeHandle ==
    /\ written' = CellWrite(RdyCmd(1))
    /\ state' = IF cell THEN "Resume" ELSE state
    /\ err_pending' = IF cell THEN err_pending ELSE TRUE
    /\ UNCHANGED <<in_flight, rdy, awaiting, ctx>>

\* Handler<NsqBackoff>; timeout is what backoff.next_backoff() returned
\* (None once max_elapsed_time has passed).
NsqBackoffHandle(timeout) ==
    /\ written' = IF timeout = "Some" THEN CellWrite(RdyCmd(0)) ELSE written
    /\ resume_timers' =
         IF timeout = "Some" /\ cell THEN resume_timers + 1 ELSE resume_timers
    /\ state' = IF timeout = "Some" /\ cell THEN "Backoff" ELSE state
    /\ err_pending' = IF timeout = "Some" /\ ~cell THEN TRUE ELSE err_pending
    /\ UNCHANGED <<in_flight, rdy, awaiting, ctx>>

\* The fields no message handler but AddHandler touches.
handler_frame ==
    <<cell, handler_ready, handlers, stream, neg, malformed, restarts,
      delivered, routes, handed, stop_timer>>

\* A message from another actor is handled.
Accepting == ctx = "running"

RecvCls ==
    /\ Accepting
    /\ state' = "Stopped"
    /\ ctx' = "stopped"
    /\ other_input' = TRUE
    /\ UNCHANGED <<in_flight, rdy, awaiting, written, err_pending, items,
                   resume_timers, fins, fin_excess>>
    /\ UNCHANGED handler_frame
    /\ UNCHANGED reactor_vars

RecvFin ==
    /\ Accepting
    /\ CanWrite
    /\ fins < MaxFins
    /\ \E overflow_checks \in BOOLEAN : FinHandle(overflow_checks)
    /\ fins' = fins + 1
    /\ fin_excess' = IF fins >= delivered THEN "delivered"
                     ELSE IF fins >= handed /\ fin_excess = "none" THEN "handed"
                     ELSE fin_excess
    /\ other_input' = TRUE
    /\ UNCHANGED <<items, resume_timers>>
    /\ UNCHANGED handler_frame
    /\ UNCHANGED reactor_vars

RecvReady ==
    /\ Accepting
    /\ CanWrite
    /\ \E n \in RdyCounts : ReadyHandle(n)
    /\ other_input' = TRUE
    /\ UNCHANGED <<items, resume_timers, fins, fin_excess>>
    /\ UNCHANGED handler_frame
    /\ UNCHANGED reactor_vars

RecvAuth ==
    /\ Accepting
    /\ CanWrite
    /\ AuthHandle
    /\ other_input' = TRUE
    /\ UNCHANGED <<items, resume_timers, fins, fin_excess>>
    /\ UNCHANGED handler_frame
    /\ UNCHANGED reactor_vars

RecvSub ==
    /\ Accepting
    /\ CanWrite
    /\ SubHandle
    /\ other_input' = TRUE
    /\ UNCHANGED <<items, resume_timers, fins, fin_excess>>
    /\ UNCHANGED handler_frame
    /\ UNCHANGED reactor_vars

RecvResume ==
    /\ Accepting
    /\ CanWrite
    /\ ResumeHandle
    /\ other_input' = TRUE
    /\ UNCHANGED <<items, resume_timers, fins, fin_excess>>
    /\ UNCHANGED handler_frame
    /\ UNCHANGED reactor_vars

RecvNsqBackoff ==
    /\ Accepting
    /\ CanSchedule
    /\ \E timeout \in {"Some", "None"} : NsqBackoffHandle(timeout)
    /\ other_input' = TRUE
    /\ UNCHANGED <<items, fins, fin_excess>>
    /\ UNCHANGED handler_frame
    /\ UNCHANGED reactor_vars

\* Handler<AddHandler<M>> with M = Msg: the recipient is pushed. (With
\* M = InFlight the recipient goes to info_hashmap, which nothing reads.)
RecvAddHandler ==
    /\ Accepting
    /\ Len(handlers) < MaxHandlers
    /\ handlers' = Append(handlers, Len(handlers) + 1)
    /\ routes' = <<>>
    /\ UNCHANGED <<state, cell, rdy, in_flight, handler_ready, ctx, items,
                   resume_timers, stop_timer, stream, awaiting, written, neg, malformed, restarts, delivered, handed, fins,
                   fin_excess, other_input, err_pending>>
    /\ UNCHANGED reactor_vars

\* The oldest message the actor notified itself with is handled.
Notified ==
    /\ Accepting
    /\ items # <<>>
    /\ CanWrite
    /\ \/ Head(items).msg = "Auth" /\ AuthHandle
       \/ Head(items).msg = "Sub" /\ SubHandle
       \/ Head(items).msg = "Ready" /\ ReadyHandle(Head(items).n)
    /\ items' = Tail(items)
    /\ UNCHANGED <<resume_timers, fins, fin_excess, other_input>>
    /\ UNCHANGED handler_frame
    /\ UNCHANGED reactor_vars

\* A timer set by NsqBackoff fires: Resume is notified and handled.
ResumeTimer ==
    /\ Accepting
    /\ resume_timers > 0
    /\ ResumeHandle
    /\ resume_timers' = resume_timers - 1
    /\ UNCHANGED <<items, fins, fin_excess, other_input>>
    /\ UNCHANGED handler_frame
    /\ UNCHANGED reactor_vars

(***************************************************************************)
(* The reactor Client::run (src/client.rs), its control relay thread and   *)
(* the worker threads of Client::spawn. The connection engine Conn it      *)
(* drives is not among the sources: its operations are modelled from the   *)
(* specification (section 4.1) and named Conn_*.                           *)
(***************************************************************************)
MaxSent == 6       \* commands written to the socket
MaxControl == 1    \* control commands put on in_cmd
MaxWatchdogs == 1  \* sentinels synthesized by the heartbeat watchdog
MaxFrames == 2     \* message frames read in Started
MaxInfos == 1      \* IsConnected events sent to the owner
MaxSecret == 1     \* distinct secrets a client is configured with
NWorkers == 2      \* n_threads of Client::spawn
MaxSends == 2      \* calls of Context::send by one worker

NoSecret == 0      \* secret: None
Secrets == 1..MaxSecret
Workers == 1..NWorkers
Sentinel == "empty"    \* BytesMut::new()

\* NsqdConfig::default()
NsqdConfigDefault ==
    [tls_v1 |-> FALSE, auth_required |-> FALSE, max_rdy_count |-> 0]

\* Conn::new, conn.register and conn.magic(): the engine starts in Identify,
\* registered for writable readiness, with the magic queued.
Conn_New ==
    /\ conn_state = "Identify"
    /\ need_response = FALSE
    /\ heartbeat = FALSE
    /\ interest = "writable"
    /\ pending = <<Magic>>
    /\ sent = <<>>

ReactorInit ==
    /\ Conn_New
    /\ nsqd_config = NsqdConfigDefault
    /\ secret \in {NoSecret} \cup Secrets
    /\ client_rdy \in 1..MaxRdy
    /\ loop_pc = "poll"
    /\ evts = <<>>
    /\ hb_expired = FALSE
    /\ in_cmd = <<>>
    /\ relay_pc = "recv"
    /\ relay_msg = "none"
    /\ r_inner_cmd = <<>>
    /\ cmd_readiness = FALSE
    /\ cmd_wakes \in BOOLEAN
    /\ msg_channel = <<>>
    /\ on_close = [w \in Workers |-> 0]
    /\ on_msg = [w \in Workers |-> 0]
    /\ out_info = 0
    /\ visited = <<"Identify">>
    /\ closes = 0
    /\ watchdogs = 0
    /\ controls = 0
    /\ frames = 0
    /\ cmd_channel = <<>>
    /\ sentinel = 0
    /\ wake_pc = "recv"
    /\ client_readiness = FALSE
    /\ send_pc = [w \in Workers |-> "idle"]
    /\ emitted = [w \in Workers |-> 0]
    /\ taken = <<>>

\* The negotiation payloads that decode as NsqdConfig.
NsqdResponses ==
    [tls_v1 : BOOLEAN, auth_required : BOOLEAN, max_rdy_count : 1..MaxRdy]

\* conn.state = s, with its history.
SetState(s) ==
    /\ conn_state' = s
    /\ visited' = IF s = conn_state THEN visited ELSE Append(visited, s)

\* conn.tls_enabled() going on to the subscription without the TLS step.
Conn_tls_skipped == "Subscribe"

\* conn.tls_enabled(): the TLS step is entered.
Conn_tls_enabled == "Tls"

\* conn.rdy(n) flips Rdy to Started once the Ready command is acted upon; the
\* other commands leave the state to the loop.
Conn_acted(s) == IF s = "Rdy" THEN "Started" ELSE s

\* conn.reregister(&mut poll, r); nothing is registered once the socket is
\* released.
Conn_reregister(r) == IF interest = "none" THEN "none" ELSE r

\* The event is done and the for loop goes on with the next one.
NextEvent ==
    /\ evts' = Tail(evts)
    /\ loop_pc' = IF Tail(evts) = <<>> THEN "poll" ELSE "events"

\* break: the rest of the batch is abandoned.
Break ==
    /\ evts' = <<>>
    /\ loop_pc' = "poll"

Handling(token) == loop_pc = "events" /\ evts # <<>> /\ Head(evts) = token

\* The variables of the threads around the loop.
threads_frame ==
    <<in_cmd, relay_pc, relay_msg, cmd_wakes, on_close, on_msg, controls,
      secret, client_rdy, sentinel, wake_pc, client_wakes, send_pc, emitted>>

(***************************************************************************)
(* poll.poll and the heartbeat watchdog.                                   *)
(***************************************************************************)
ConnEvent == IF interest = "readable" THEN "CONN_R" ELSE "CONN_W"

\* The wakes set by the relay threads and not yet returned by a poll.
Wakes ==
    (IF cmd_readiness THEN {"CMD"} ELSE {})
        \cup (IF client_readiness THEN {"CLIENT"} ELSE {})

\* The events of S in any order.
Orderings(S) ==
    {q \in [1..Cardinality(S) -> S] :
        \A i, j \in 1..Cardinality(S) : q[i] = q[j] => i = j}

\* The batches poll can return: the wakes that are pending, and the socket
\* if it is registered and ready, in any order.
Batches ==
    LET socket == IF interest = "none" THEN {{}} ELSE {{}, {ConnEvent}}
    IN  UNION {Orderings(Wakes \cup c) : c \in socket}

Poll ==
    /\ loop_pc = "poll"
    /\ hb_expired => watchdogs < MaxWatchdogs
    /\ \E b \in Batches :
        /\ evts' = b
        /\ loop_pc' = IF b = <<>> THEN "poll" ELSE "events"
    /\ cmd_readiness' = FALSE
    /\ client_readiness' = FALSE
    /\ msg_channel' =
         IF hb_expired THEN Append(msg_channel, Sentinel) ELSE msg_channel
    /\ watchdogs' = IF hb_expired THEN watchdogs + 1 ELSE watchdogs
    /\ UNCHANGED <<conn_state, need_response, heartbeat, interest, pending,
                   sent, nsqd_config, hb_expired, r_inner_cmd, out_info,
                   visited, closes, frames>>
    /\ UNCHANGED threads_frame
    /\ UNCHANGED <<cmd_channel, taken>>
    /\ UNCHANGED actor_vars

\* poll.poll returns an error: panic.
PollFails ==
    /\ loop_pc = "poll"
    /\ loop_pc' = "panicked"
    /\ UNCHANGED <<conn_state, need_response, heartbeat, interest, pending,
                   sent, nsqd_config, hb_expired, r_inner_cmd, out_info,
                   visited, closes, frames, evts, cmd_readiness, msg_channel,
                   watchdogs>>
    /\ UNCHANGED threads_frame
    /\ UNCHANGED <<cmd_channel, taken>>
    /\ UNCHANGED client_readiness
    /\ UNCHANGED actor_vars

\* More than 45 s pass without last_heartbeat being set.
Tick ==
    /\ loop_pc \in {"poll", "events"}
    /\ ~hb_expired
    /\ watchdogs < MaxWatchdogs
    /\ hb_expired' = TRUE
    /\ UNCHANGED <<conn_state, need_response, heartbeat, interest, pending,
                   sent, nsqd_config, r_inner_cmd, out_info, visited, closes,
                   frames, evts, loop_pc, cmd_readiness, msg_channel,
                   watchdogs>>
    /\ UNCHANGED threads_frame
    /\ UNCHANGED <<cmd_channel, taken>>
    /\ UNCHANGED client_readiness
    /\ UNCHANGED actor_vars

(***************************************************************************)
(* ev.token() == CMD_TOKEN.                                                *)
(***************************************************************************)
\* conn.close(): the engine is Stopped and the socket released.
Conn_close ==
    /\ SetState("Stopped")
    /\ interest' = "none"

CmdEvent ==
    /\ Handling("CMD")
    /\ IF r_inner_cmd # <<>>
       THEN /\ r_inner_cmd' = Tail(r_inner_cmd)
            /\ IF Head(r_inner_cmd) = "Close"
               THEN /\ Conn_close
                    /\ msg_channel' = Append(msg_channel, Sentinel)
                    /\ closes' = closes + 1
               ELSE UNCHANGED <<conn_state, visited, interest, msg_channel,
                                closes>>
       ELSE UNCHANGED <<r_inner_cmd, conn_state, visited, interest,
                        msg_channel, closes>>
    /\ NextEvent
    /\ UNCHANGED <<need_response, heartbeat, pending, sent, nsqd_config,
                   hb_expired, out_info, frames, cmd_readiness, watchdogs>>
    /\ UNCHANGED threads_frame
    /\ UNCHANGED <<cmd_channel, taken>>
    /\ UNCHANGED client_readiness
    /\ UNCHANGED actor_vars

(***************************************************************************)
(* ev.token() == CONNECTION, readable.                                     *)
(***************************************************************************)
\* What no socket event touches.
socket_frame ==
    <<r_inner_cmd, cmd_readiness, closes, watchdogs>>

\* conn.read() returns Ok(0).
ReadZero ==
    /\ Handling("CONN_R")
    /\ interest' = IF need_response THEN Conn_reregister("readable") ELSE interest
    /\ Break
    /\ UNCHANGED <<conn_state, visited, need_response, heartbeat, pending,
                   sent, nsqd_config, hb_expired, out_info, frames,
                   msg_channel>>
    /\ UNCHANGED socket_frame
    /\ UNCHANGED threads_frame
    /\ UNCHANGED <<cmd_channel, taken>>
    /\ UNCHANGED client_readiness
    /\ UNCHANGED actor_vars

\* The error kinds for which conn.read()'s Err arm panics.
Panics(kind) == kind # "WouldBlock"

\* conn.read() returns Err(e) of the given kind: a panic, or the event
\* IsConnected(connected: false) for the owner and break.
ReadErrKind(kind) ==
    /\ Handling("CONN_R")
    /\ Panics(kind) \/ out_info < MaxInfos
    /\ IF Panics(kind)
       THEN /\ loop_pc' = "panicked"
            /\ evts' = evts
            /\ out_info' = out_info
       ELSE /\ out_info' = out_info + 1
            /\ Break
    /\ UNCHANGED <<conn_state, visited, need_response, heartbeat, interest,
                   pending, sent, nsqd_config, hb_expired, frames,
                   msg_channel>>
    /\ UNCHANGED socket_frame
    /\ UNCHANGED threads_frame
    /\ UNCHANGED <<cmd_channel, taken>>
    /\ UNCHANGED client_readiness
    /\ UNCHANGED actor_vars

ReadErr == \E kind \in {"WouldBlock", "Other"} : ReadErrKind(kind)

\* conn.read() returned bytes in a handshake state and get_response is Err
\* (the daemon answered with an error frame): unwrap panics.
ReadErrFrame ==
    /\ Handling("CONN_R")
    /\ interest # "none"
    /\ conn_state \in {"Identify", "Tls", "Auth", "Subscribe"}
    /\ loop_pc' = "panicked"
    /\ UNCHANGED <<conn_state, visited, need_response, heartbeat, interest,
                   pending, sent, nsqd_config, hb_expired, frames, out_info,
                   msg_channel, evts>>
    /\ UNCHANGED socket_frame
    /\ UNCHANGED threads_frame
    /\ UNCHANGED <<cmd_channel, taken>>
    /\ UNCHANGED client_readiness
    /\ UNCHANGED actor_vars

\* State::Identify and the response is no NsqdConfig: expect panics.
ReadIdentifyUndecodable ==
    /\ Handling("CONN_R")
    /\ interest # "none"
    /\ conn_state = "Identify"
    /\ loop_pc' = "panicked"
    /\ UNCHANGED <<conn_state, visited, need_response, heartbeat, interest,
                   pending, sent, nsqd_config, hb_expired, frames, out_info,
                   msg_channel, evts>>
    /\ UNCHANGED socket_frame
    /\ UNCHANGED threads_frame
    /\ UNCHANGED <<cmd_channel, taken>>
    /\ UNCHANGED client_readiness
    /\ UNCHANGED actor_vars

\* self.secret.is_none()
SecretIsNone == secret = NoSecret

\* AfterIdentify with the test of auth_required dropped.
AfterIdentify_AlwaysAuth(cfg) ==
    IF cfg.tls_v1 THEN "Tls"
    ELSE IF SecretIsNone THEN "exit" ELSE "Auth"

\* State::Identify, after the response decoded as cfg: the TLS step, exit(1),
\* or the next state.
AfterIdentify(cfg) ==
    IF cfg.tls_v1 THEN "Tls"
    ELSE IF cfg.auth_required
         THEN IF SecretIsNone THEN "exit" ELSE "Auth"
         ELSE "Subscribe"

\* AfterTls without the test for a missing secret.
AfterTls_NoSecretCheck(cfg) ==
    IF cfg.auth_required THEN "Auth" ELSE "Subscribe"

\* State::Tls, after its response: exit(1) or the next state.
AfterTls(cfg) ==
    IF cfg.auth_required
    THEN IF SecretIsNone THEN "exit" ELSE "Auth"
    ELSE "Subscribe"

\* The end of a handshake response: process::exit(1), or the new state with
\* need_response cleared and the socket registered for writable.
Advance(next) ==
    IF next = "exit"
    THEN /\ loop_pc' = "exited"
         /\ UNCHANGED <<conn_state, visited, need_response, interest, evts>>
    ELSE /\ SetState(next)
         /\ need_response' = FALSE
         /\ interest' = Conn_reregister("writable")
         /\ NextEvent

ReadIdentify ==
    /\ Handling("CONN_R")
    /\ interest # "none"
    /\ conn_state = "Identify"
    /\ \E cfg \in NsqdResponses :
        /\ nsqd_config' = cfg
        /\ IF AfterIdentify(cfg) = "Tls"
           THEN \* conn.tls_enabled(); reregister readable; break
                /\ SetState(Conn_tls_enabled)
                /\ interest' = Conn_reregister("readable")
                /\ Break
                /\ UNCHANGED need_response
           ELSE Advance(AfterIdentify(cfg))
    /\ UNCHANGED <<heartbeat, pending, sent, hb_expired, frames, out_info,
                   msg_channel>>
    /\ UNCHANGED socket_frame
    /\ UNCHANGED threads_frame
    /\ UNCHANGED <<cmd_channel, taken>>
    /\ UNCHANGED client_readiness
    /\ UNCHANGED actor_vars

ReadTls ==
    /\ Handling("CONN_R")
    /\ interest # "none"
    /\ conn_state = "Tls"
    /\ Advance(AfterTls(nsqd_config))
    /\ UNCHANGED <<heartbeat, pending, sent, hb_expired, frames, out_info,
                   msg_channel, nsqd_config>>
    /\ UNCHANGED socket_frame
    /\ UNCHANGED threads_frame
    /\ UNCHANGED <<cmd_channel, taken>>
    /\ UNCHANGED client_readiness
    /\ UNCHANGED actor_vars

ReadAuth ==
    /\ Handling("CONN_R")
    /\ interest # "none"
    /\ conn_state = "Auth"
    /\ Advance("Subscribe")
    /\ UNCHANGED <<heartbeat, pending, sent, hb_expired, frames, out_info,
                   msg_channel, nsqd_config>>
    /\ UNCHANGED socket_frame
    /\ UNCHANGED threads_frame
    /\ UNCHANGED <<cmd_channel, taken>>
    /\ UNCHANGED client_readiness
    /\ UNCHANGED actor_vars

ReadSubscribe ==
    /\ Handling("CONN_R")
    /\ interest # "none"
    /\ conn_state = "Subscribe"
    /\ Advance("Rdy")
    /\ UNCHANGED <<heartbeat, pending, sent, hb_expired, frames, out_info,
                   msg_channel, nsqd_config>>
    /\ UNCHANGED socket_frame
    /\ UNCHANGED threads_frame
    /\ UNCHANGED <<cmd_channel, taken>>
    /\ UNCHANGED client_readiness
    /\ UNCHANGED actor_vars

\* Started: conn.read() decodes the frames: a heartbeat sets conn.heartbeat
\* and a message goes to the worker queue.
ReadStarted ==
    /\ Handling("CONN_R")
    /\ interest # "none"
    /\ conn_state = "Started"
    /\ \/ /\ Len(sent) < MaxSent
          /\ heartbeat' = TRUE
          /\ UNCHANGED <<msg_channel, frames>>
       \/ /\ frames < MaxFrames
          /\ msg_channel' = Append(msg_channel, "msg")
          /\ frames' = frames + 1
          /\ UNCHANGED heartbeat
    /\ interest' = Conn_reregister("writable")
    /\ NextEvent
    /\ UNCHANGED <<conn_state, visited, need_response, pending, sent,
                   nsqd_config, hb_expired, out_info>>
    /\ UNCHANGED socket_frame
    /\ UNCHANGED threads_frame
    /\ UNCHANGED <<cmd_channel, taken>>
    /\ UNCHANGED client_readiness
    /\ UNCHANGED actor_vars

(***************************************************************************)
(* ev.token() == CONNECTION, writable.                                     *)
(***************************************************************************)
\* conn.auth handed no secret.
AuthSecret_None == NoSecret

\* The secret handed to conn.auth.
AuthSecret == secret

\* What the state's arm queues: conn.identify(), conn.auth(secret),
\* conn.subscribe(topic, channel) or conn.rdy(self.rdy).
Queued ==
    CASE conn_state = "Identify" -> <<Identify>>
      [] conn_state = "Auth" ->
           IF SecretIsNone THEN <<>> ELSE <<Command("Auth", AuthSecret)>>
      [] conn_state = "Subscribe" -> <<SubCmd>>
      [] conn_state = "Rdy" -> <<RdyCmd(client_rdy)>>
      [] OTHER -> <<>>

\* identify, auth and subscribe expect a response.
Conn_expects == Queued # <<>> /\ conn_state \in {"Identify", "Auth", "Subscribe"}

WriteHandshake ==
    /\ Handling("CONN_W")
    /\ conn_state # "Started"
    /\ SetState(Conn_acted(conn_state))
    /\ need_response' = (need_response \/ Conn_expects)
    \* conn.write() (an error is logged)
    /\ IF interest = "none"
       THEN UNCHANGED <<sent, pending>>
       ELSE /\ sent' = sent \o pending \o Queued
            /\ pending' = <<>>
    /\ interest' = Conn_reregister(IF need_response' THEN "readable" ELSE "writable")
    /\ NextEvent
    /\ UNCHANGED <<heartbeat, nsqd_config, hb_expired, out_info, frames,
                   msg_channel>>
    /\ UNCHANGED socket_frame
    /\ UNCHANGED threads_frame
    /\ UNCHANGED <<cmd_channel, taken>>
    /\ UNCHANGED client_readiness
    /\ UNCHANGED actor_vars

\* conn.write_messages(): the commands of the workers are taken from the
\* command queue, in the order of the queue, and written.
Conn_write_messages ==
    /\ taken' = taken \o cmd_channel
    /\ cmd_channel' = <<>>

\* conn.heartbeat_done(): the heartbeat flag is cleared.
Conn_heartbeat_done == FALSE

\* HeartbeatReply with the test of conn.heartbeat dropped.
HeartbeatReply_Always == <<NopCmd>>

\* `if conn.heartbeat { .. conn.write_cmd(Nop); conn.write() .. }`: what the
\* Started writable arm writes for the heartbeat.
HeartbeatReply == IF heartbeat THEN <<NopCmd>> ELSE <<>>

\* last_heartbeat set on every writable event in Started.
Elapsed_Always == FALSE

\* `if conn.heartbeat { last_heartbeat = Instant::now(); .. }`: whether
\* last_heartbeat.elapsed() is still over 45 s after the Started writable arm.
Elapsed == IF heartbeat THEN FALSE ELSE hb_expired

\* Started: a heartbeat is answered with Nop and last_heartbeat is set.
WriteStarted ==
    /\ Handling("CONN_W")
    /\ conn_state = "Started"
    /\ hb_expired' = Elapsed
    /\ sent' = sent \o HeartbeatReply
    /\ heartbeat' = IF heartbeat THEN Conn_heartbeat_done ELSE heartbeat
    /\ Conn_write_messages
    /\ interest' = Conn_reregister("readable")
    /\ NextEvent
    /\ UNCHANGED <<conn_state, visited, need_response, pending, nsqd_config,
                   out_info, frames, msg_channel>>
    /\ UNCHANGED socket_frame
    /\ UNCHANGED threads_frame
    /\ UNCHANGED client_readiness
    /\ UNCHANGED actor_vars

\* ev.token() is neither CMD_TOKEN nor CONNECTION: the wake of the workers'
\* commands.
ClientEvent ==
    /\ Handling("CLIENT")
    /\ Conn_write_messages
    /\ NextEvent
    /\ UNCHANGED <<conn_state, visited, need_response, heartbeat, interest,
                   pending, sent, nsqd_config, hb_expired, out_info, frames,
                   msg_channel>>
    /\ UNCHANGED socket_frame
    /\ UNCHANGED threads_frame
    /\ UNCHANGED client_readiness
    /\ UNCHANGED actor_vars

(***************************************************************************)
(* The owner, the control relay thread and the workers.                    *)
(***************************************************************************)
Running == loop_pc # "exited"

loop_frame ==
    <<conn_state, need_response, heartbeat, interest, pending, sent,
      nsqd_config, secret, client_rdy, loop_pc, evts, hb_expired, out_info,
      visited, closes, watchdogs, frames, cmd_wakes>>

\* The owner puts a control command on in_cmd.
PutControl ==
    /\ Running
    /\ controls < MaxControl
    /\ \E m \in {"Close", "Other"} : in_cmd' = Append(in_cmd, m)
    /\ controls' = controls + 1
    /\ UNCHANGED <<relay_pc, relay_msg, r_inner_cmd, cmd_readiness,
                   msg_channel, on_close, on_msg>>
    /\ UNCHANGED loop_frame
    /\ UNCHANGED send_vars
    /\ UNCHANGED actor_vars

\* r_cmd.recv()
RelayRecv ==
    /\ Running
    /\ relay_pc = "recv"
    /\ in_cmd # <<>>
    /\ relay_msg' = Head(in_cmd)
    /\ in_cmd' = Tail(in_cmd)
    /\ relay_pc' = "signal"
    /\ UNCHANGED <<r_inner_cmd, cmd_readiness, msg_channel, on_close, on_msg,
                   controls>>
    /\ UNCHANGED loop_frame
    /\ UNCHANGED send_vars
    /\ UNCHANGED actor_vars

\* cmd_readiness.set_readiness(Ready::readable())
RelaySignal ==
    /\ Running
    /\ relay_pc = "signal"
    /\ cmd_readiness' = (cmd_readiness \/ cmd_wakes)
    /\ relay_pc' = "forward"
    /\ UNCHANGED <<in_cmd, relay_msg, r_inner_cmd, msg_channel, on_close,
                   on_msg, controls>>
    /\ UNCHANGED loop_frame
    /\ UNCHANGED send_vars
    /\ UNCHANGED actor_vars

\* s_inner_cmd.send(msg)
RelayForward ==
    /\ Running
    /\ relay_pc = "forward"
    /\ r_inner_cmd' = Append(r_inner_cmd, relay_msg)
    /\ relay_msg' = "none"
    /\ relay_pc' = "recv"
    /\ UNCHANGED <<in_cmd, cmd_readiness, msg_channel, on_close, on_msg,
                   controls>>
    /\ UNCHANGED loop_frame
    /\ UNCHANGED send_vars
    /\ UNCHANGED actor_vars

\* IsClose taking no payload for the sentinel.
IsClose_Never(msg) == FALSE

\* `msg.len() == 0`: the payload is the sentinel.
IsClose(msg) == msg = Sentinel

\* A worker of Client::spawn takes a payload: on_close for an empty one,
\* on_msg for any other, and it waits again.
WorkerRecv(w) ==
    /\ Running
    /\ msg_channel # <<>>
    /\ msg_channel' = Tail(msg_channel)
    /\ IF IsClose(Head(msg_channel))
       THEN /\ on_close' = [on_close EXCEPT ![w] = @ + 1]
            /\ UNCHANGED on_msg
       ELSE /\ on_msg' = [on_msg EXCEPT ![w] = @ + 1]
            /\ UNCHANGED on_close
    /\ UNCHANGED <<in_cmd, relay_pc, relay_msg, r_inner_cmd, cmd_readiness,
                   controls>>
    /\ UNCHANGED loop_frame
    /\ UNCHANGED send_vars
    /\ UNCHANGED actor_vars

WorkerStep == \E w \in Workers : WorkerRecv(w)

(***************************************************************************)
(* Context::send and the wake relay thread.                                *)
(***************************************************************************)
\* What Context::send and the wake relay leave alone.
send_frame ==
    <<conn_state, need_response, heartbeat, interest, pending, sent,
      nsqd_config, secret, client_rdy, loop_pc, evts, hb_expired, in_cmd,
      relay_pc, relay_msg, r_inner_cmd, cmd_readiness, cmd_wakes,
      msg_channel, on_close, on_msg, out_info, visited, closes, watchdogs,
      controls, frames, client_wakes, taken>>

\* ChannelSend putting the message at the front of the queue.
ChannelSend_Front(q, msg) == <<msg>> \o q

\* Sender::send on an unbounded channel: the message goes to the back.
ChannelSend(q, msg) == Append(q, msg)

\* The handler of worker w has been given a Context: it has run on_msg or
\* on_close.
HasContext(w) == on_msg[w] + on_close[w] > 0

\* Context::send, first half: self.cmd_s.send(cmd).
SendCmd(w) ==
    /\ Running
    /\ HasContext(w)
    /\ send_pc[w] = "idle"
    /\ emitted[w] < MaxSends
    /\ emitted' = [emitted EXCEPT ![w] = @ + 1]
    /\ cmd_channel' = ChannelSend(cmd_channel, [w |-> w, n |-> emitted[w] + 1])
    /\ send_pc' = [send_pc EXCEPT ![w] = "notify"]
    /\ UNCHANGED <<sentinel, wake_pc, client_readiness>>
    /\ UNCHANGED send_frame
    /\ UNCHANGED actor_vars

\* Context::send, second half: self.sentinel.send(()).
SendSentinel(w) ==
    /\ Running
    /\ send_pc[w] = "notify"
    /\ sentinel' = sentinel + 1
    /\ send_pc' = [send_pc EXCEPT ![w] = "idle"]
    /\ UNCHANGED <<cmd_channel, emitted, wake_pc, client_readiness>>
    /\ UNCHANGED send_frame
    /\ UNCHANGED actor_vars

ContextSend == \E w \in Workers : SendCmd(w) \/ SendSentinel(w)

\* r_sentinel.recv()
WakeRecv ==
    /\ Running
    /\ wake_pc = "recv"
    /\ sentinel > 0
    /\ sentinel' = sentinel - 1
    /\ wake_pc' = "signal"
    /\ UNCHANGED <<cmd_channel, emitted, send_pc, client_readiness>>
    /\ UNCHANGED send_frame
    /\ UNCHANGED actor_vars

\* set_readiness.set_readiness(Ready::writable())
WakeSignal ==
    /\ Running
    /\ wake_pc = "signal"
    /\ client_readiness' = (client_readiness \/ client_wakes)
    /\ wake_pc' = "recv"
    /\ UNCHANGED <<cmd_channel, emitted, send_pc, sentinel>>
    /\ UNCHANGED send_frame
    /\ UNCHANGED actor_vars

\* The wake relay thread.
Wake == WakeRecv \/ WakeSignal

\* The reactor loop of Client::run.
Loop ==
    \/ Poll
    \/ PollFails
    \/ CmdEvent
    \/ ReadZero
    \/ ReadErr
    \/ ReadErrFrame
    \/ ReadIdentifyUndecodable
    \/ ReadIdentify
    \/ ReadTls
    \/ ReadAuth
    \/ ReadSubscribe
    \/ ReadStarted
    \/ WriteHandshake
    \/ WriteStarted

\* The owner and the control relay thread.
Relay ==
    \/ PutControl
    \/ RelayRecv
    \/ RelaySignal
    \/ RelayForward

ReactorNext == Loop \/ Relay

\* The socket events of the loop.
Socket ==
    \/ Poll
    \/ PollFails
    \/ ReadZero
    \/ ReadErr
    \/ ReadErrFrame
    \/ ReadIdentifyUndecodable
    \/ ReadIdentify
    \/ ReadTls
    \/ ReadAuth
    \/ ReadSubscribe
    \/ ReadStarted
    \/ WriteHandshake
    \/ WriteStarted

SendNext == Socket \/ ClientEvent \/ WorkerStep \/ ContextSend \/ Wake

ClientNext == Loop \/ Relay \/ Tick \/ WorkerStep

(***************************************************************************)
(* The specifications of the actor. Both hold the connection's life cycle. *)
(* SpecActor adds the handshake and the control messages and frames that   *)
(* write commands. SpecFlow adds the delivery of messages and their Fin:   *)
(* neither handler reads state, so the flow is checked without the         *)
(* handshake's responses.                                                  *)
(***************************************************************************)
Lifecycle ==
    \/ started
    \/ Restart
    \/ TcpConnectOk
    \/ TcpConnectConfigErr
    \/ TcpConnectErr
    \/ StopTimer
    \/ StreamFinished
    \/ StreamError
    \/ WriteError
    \/ RecvCls

Handshake ==
    \/ HandleResponse
    \/ HandleResponseError
    \/ Notified

Control ==
    \/ HandleHeartbeat
    \/ HandleCommand
    \/ RecvReady
    \/ RecvAuth
    \/ RecvSub
    \/ RecvResume
    \/ RecvNsqBackoff
    \/ ResumeTimer

Flow ==
    \/ HandleResponseMsg
    \/ RecvFin
    \/ RecvAddHandler

ActorNext == Lifecycle \/ Handshake \/ Control

FlowNext == Lifecycle \/ Flow

\* The connection stays up and no other actor sends Ready, Auth, Sub, Resume
\* or Cls: the handshake, the messages and their Fins, and the backoff cycle.
BackoffNext ==
    \/ started
    \/ TcpConnectOk
    \/ HandleResponse
    \/ Notified
    \/ ResumeTimer
    \/ HandleResponseMsg
    \/ RecvFin
    \/ RecvAddHandler
    \/ RecvNsqBackoff

\* What goes on by itself in BackoffNext: the actor's own steps, and the
\* daemon's responses, messages and the workers' Fins while there are any.
BackoffProgress ==
    \/ started
    \/ TcpConnectOk
    \/ HandleResponse
    \/ Notified
    \/ ResumeTimer
    \/ HandleResponseMsg
    \/ RecvFin

\* While one program is checked the other one does not run.
ActorIdle == ActorInit /\ rdy = 1

ReactorIdle ==
    ReactorInit /\ secret = NoSecret /\ client_rdy = 1 /\ ~cmd_wakes
        /\ client_wakes = FALSE

ActorStart == ActorInit /\ ReactorIdle

ReactorStart == ReactorInit /\ client_wakes = FALSE /\ ActorIdle

SendStart ==
    /\ ReactorInit
    /\ secret \in Secrets
    /\ client_rdy = 1
    /\ cmd_wakes = FALSE
    /\ client_wakes \in BOOLEAN
    /\ ActorIdle

SpecActor == ActorStart /\ [][ActorNext]_vars

SpecFlow == ActorStart /\ [][FlowNext]_vars

SpecReactor == ReactorStart /\ [][ReactorNext]_vars

SpecClient == ReactorStart /\ [][ClientNext]_vars

SpecSend == SendStart /\ [][SendNext]_vars

Spec == SpecActor

\* A timer that is set fires, a notified message is handled, and message
\* processing goes on; nothing obliges the worker pool to report failures.
SpecBackoff ==
    /\ ActorStart
    /\ [][BackoffNext]_vars
    /\ WF_vars(ResumeTimer)
    /\ WF_vars(BackoffProgress)

\* The reactor thread and the relay thread are both scheduled: the loop goes
\* on while it has a step to take, and so does the relay thread.  Nothing
\* obliges the owner to put a command or the daemon to answer.
RelayThread == RelayRecv \/ RelaySignal \/ RelayForward

SpecReactorFair ==
    /\ SpecReactor
    /\ WF_vars(Loop)
    /\ WF_vars(RelayThread)
(***************************************************************************)
(* Properties of the actor.                                                *)
(***************************************************************************)
IsPrefix(s, t) == Len(s) <= Len(t) /\ \A i \in 1..Len(s) : s[i] = t[i]

\* C1 as stated: with a handler registered, after k delivered messages and
\* j Fin, the Fins never more than the deliveries so far, in_flight is k - j.
C1_InFlightIsDeliveredMinusFins ==
    fin_excess # "delivered" => in_flight = U32Of(delivered - fins)

\* C1 as amended: in_flight is h - j, where h counts the delivered messages
\* whose hand-off to a handler succeeded (do_send returned Ok) and j the Fins,
\* provided the Fins were never more than the successful hand-offs so far.
C1_InFlightIsHandedMinusFins ==
    fin_excess = "none" => in_flight = U32Of(handed - fins)

\* m1, m2, m3 handed to a handler and one of them finished.
C1_Witness ==
    /\ fin_excess = "none"
    /\ delivered = 3
    /\ handed = 3
    /\ fins = 1
    /\ in_flight = U32Of(2)

\* C2: in_flight never underflows: no Fin panics the actor and the counter
\* never holds more than the messages handed to handlers.
C2_InFlightNeverUnderflows ==
    /\ ctx # "panicked"
    /\ in_flight.hi = 0
    /\ in_flight.lo <= handed

\* C5: when the negotiation response asks for authentication, the engine
\* has sent an Auth command whenever it is in the Auth state.
C5_AuthStateSendsAuth ==
    (neg.json /\ neg.auth_required /\ ~other_input /\ state = "Auth")
        => \E i \in 1..Len(written) : written[i].cmd = "Auth"

ScenarioA == <<Magic, Identify, SubCmd, RdyCmd(rdy)>>

\* C6: after a connect, a negotiation response without auth_required and the
\* response to the subscription, and nothing else, the commands written are
\* Magic, Identify, Sub, Ready(rdy), in this order and each once.
C6_ScenarioACommands ==
    (neg.json /\ ~neg.auth_required /\ ~other_input) =>
        /\ IsPrefix(written, ScenarioA)
        /\ state = "Started" => written = ScenarioA
        /\ (awaiting = <<>> /\ items = <<>>) =>
               (state = "Started" /\ written = ScenarioA)

C6_Witness ==
    /\ neg.json /\ ~neg.auth_required /\ ~other_input
    /\ state = "Started"
    /\ written = ScenarioA

\* C8: a Ready command written on entering Started or in Started carries a
\* count of at most the max_rdy_count negotiated on this connection.
C8_ReadyWithinMaxRdyCount ==
    [][(/\ neg.json
        /\ state' = "Started"
        /\ Len(written') = Len(written) + 1
        /\ written'[Len(written')].cmd = "Rdy")
          => written'[Len(written')].arg <= neg.max_rdy_count]_vars

(***************************************************************************)
(* The reactor.                                                            *)
(***************************************************************************)
\* The states visited before a Close stopped the engine.
BeforeStop(v) ==
    IF v[Len(v)] = "Stopped" THEN SubSeq(v, 1, Len(v) - 1) ELSE v

Sent(c) == {i \in 1..Len(sent) : sent[i].cmd = c}

PlainPath == <<"Identify", "Subscribe", "Rdy", "Started">>

AuthPath ==
    IF nsqd_config.tls_v1
    THEN <<"Identify", "Tls", "Auth", "Subscribe", "Rdy", "Started">>
    ELSE <<"Identify", "Auth", "Subscribe", "Rdy", "Started">>

\* C3: with a negotiation response that has neither auth_required nor
\* tls_v1, the state goes Identify, Subscribe, Rdy, Started in this order
\* (a Close may stop it on the way) and is never Auth.
C3_PlainPathSkipsAuth ==
    (~nsqd_config.auth_required /\ ~nsqd_config.tls_v1) =>
        /\ IsPrefix(BeforeStop(visited), PlainPath)
        /\ \A i \in 1..Len(visited) : visited[i] # "Auth"
        /\ conn_state # "Auth"

C3_Witness ==
    /\ nsqd_config \in NsqdResponses
    /\ ~nsqd_config.auth_required /\ ~nsqd_config.tls_v1
    /\ conn_state = "Started"
    /\ visited = PlainPath
    /\ Sent("Rdy") # {}

\* C4: with auth_required and a secret, the state is Auth in one phase only,
\* after Identify (and Tls if advertised) and before Subscribe; at most one
\* Auth command is sent, it carries the secret, it follows Identify and
\* precedes Sub, and it has been sent once the state is past Auth.
C4_AuthOnceBeforeSubscribe ==
    (nsqd_config.auth_required /\ ~SecretIsNone) =>
        /\ IsPrefix(BeforeStop(visited), AuthPath)
        /\ Cardinality(Sent("Auth")) <= 1
        /\ \A i \in Sent("Auth") :
            /\ sent[i].arg = secret
            /\ \E j \in Sent("Identify") : j < i
            /\ \A j \in Sent("Sub") : i < j
        /\ Sent("Auth") # {} =>
               \E i \in 1..Len(visited) : visited[i] = "Auth"
        /\ conn_state \in {"Subscribe", "Rdy", "Started"} =>
               Cardinality(Sent("Auth")) = 1

C4_Witness ==
    /\ nsqd_config.auth_required /\ nsqd_config.tls_v1 /\ ~SecretIsNone
    /\ conn_state = "Started"
    /\ visited = AuthPath
    /\ Cardinality(Sent("Auth")) = 1
    /\ Sent("Rdy") # {}

\* C7: with auth_required and no secret, the process exits where the secret
\* is looked for,
\* after the negotiation response or after the TLS step, and no Auth, Sub or
\* Rdy command is ever sent.
C7_NoSecretExits ==
    (nsqd_config.auth_required /\ SecretIsNone) =>
        /\ Sent("Auth") = {} /\ Sent("Sub") = {} /\ Sent("Rdy") = {}
        /\ ~nsqd_config.tls_v1 => loop_pc = "exited"
        /\ nsqd_config.tls_v1 =>
               loop_pc = "exited" \/ conn_state \in {"Tls", "Stopped"}
        /\ loop_pc = "exited" => conn_state \in {"Identify", "Tls"}

\* The exit after the TLS step.
C7_Witness ==
    /\ nsqd_config.auth_required /\ nsqd_config.tls_v1 /\ SecretIsNone
    /\ loop_pc = "exited"
    /\ conn_state = "Tls"
    /\ Sent("Identify") # {}

\* C9: once the one Close is handled and the workers have taken what it put
\* on the message queue, each of the N workers has run on_close once.
C9_EveryWorkerObservesClose ==
    (closes = 1 /\ watchdogs = 0 /\ msg_channel = <<>>) =>
        \A w \in Workers : on_close[w] = 1

\* C10: a Close put on the control queue is eventually handled by the
\* reactor, when control wakes reach the poll and the loop neither panics
\* nor exits.
C10_CloseEventuallyHandled ==
    (cmd_wakes /\ \E i \in 1..Len(in_cmd) : in_cmd[i] = "Close")
        ~> (closes > 0 \/ loop_pc \in {"panicked", "exited"})

\* C11: once the reactor has handled a Close its loop has ended: it is never
\* again at its poll call.
C11_LoopEndsAfterClose ==
    closes > 0 => loop_pc # "poll"

\* C12: the watchdog puts a sentinel on the worker queue only when the
\* connection is in Started and the heartbeat window has passed.
C12_WatchdogOnlyInStarted ==
    [][watchdogs' # watchdogs => (conn_state = "Started" /\ hb_expired)]_vars

\* C18: a read that returns would-block is no error: no disconnect event goes
\* to the owner, no sentinel to the workers, the connection state is
\* unchanged and the loop is back at its poll call.
C18_WouldBlockIsNoError ==
    [][ReadErrKind("WouldBlock") =>
         /\ out_info' = out_info
         /\ msg_channel' = msg_channel
         /\ conn_state' = conn_state
         /\ loop_pc' = "poll"]_vars

\* C19: a read that fails with another I/O error is reported to the owner as
\* a disconnect event, a sentinel goes to the workers and the loop is not
\* aborted.
C19_ReadErrorIsReported ==
    [][ReadErrKind("Other") =>
         /\ out_info' = out_info + 1
         /\ msg_channel' = Append(msg_channel, Sentinel)
         /\ loop_pc' # "panicked"]_vars

Nops(q) == Cardinality({i \in 1..Len(q) : q[i].cmd = "Nop"})

\* C13: a writable-ready cycle of the connection in Started sends exactly
\* one Nop when the heartbeat flag is set and none when it is clear, and
\* leaves the flag cleared.
C13_HeartbeatAnsweredOnce ==
    [][(Handling("CONN_W") /\ conn_state = "Started" /\ evts' # evts) =>
         /\ Nops(sent') = Nops(sent) + (IF heartbeat THEN 1 ELSE 0)
         /\ ~heartbeat']_vars

\* A heartbeat was received in Started and answered.
C13_Witness ==
    /\ conn_state = "Started"
    /\ Nops(sent) = 1
    /\ ~heartbeat
    /\ interest = "readable"
    /\ loop_pc = "poll"

(***************************************************************************)
(* C14: every command a worker emits with Context::send is eventually      *)
(* taken and written by the loop: while a command sits in the command queue*)
(* a wake for it is pending or will be delivered, that is, its sender has  *)
(* yet to notify, or a notification waits in the sentinel channel, or the  *)
(* wake relay is about to set the readiness, or the readiness is set, or   *)
(* the loop holds the wake event or a writable socket event it has yet to  *)
(* handle in Started.                                                      *)
(***************************************************************************)
WakeUnderway ==
    \/ \E w \in Workers : send_pc[w] = "notify"
    \/ sentinel > 0
    \/ wake_pc = "signal"
    \/ client_readiness
    \/ \E i \in 1..Len(evts) :
          evts[i] = "CLIENT" \/ (evts[i] = "CONN_W" /\ conn_state = "Started")

C14_NoCommandUnobserved ==
    (client_wakes /\ Running /\ cmd_channel # <<>>) => WakeUnderway

(***************************************************************************)
(* C15: the commands one worker emits through successive Context::send     *)
(* calls are taken by the loop in the order they were emitted, whatever    *)
(* the other workers send in between.                                      *)
(***************************************************************************)
InEmissionOrder(q) ==
    \A i, j \in 1..Len(q) : (i < j /\ q[i].w = q[j].w) => q[i].n < q[j].n

C15_TakenInEmissionOrder ==
    /\ InEmissionOrder(taken)
    /\ InEmissionOrder(taken \o cmd_channel)

C15_Witness ==
    /\ Len(taken) >= 3
    /\ taken[1].w # taken[2].w
    /\ taken[3].w = taken[1].w
    /\ taken[3].n = 2


(***************************************************************************)
(* C16: the actor Connection never enters Backoff from a state before      *)
(* Started: whenever the state becomes Backoff it was Started, or already  *)
(* inside the Backoff/Resume cycle.                                        *)
(***************************************************************************)
C16_BackoffOnlyFromStarted ==
    [][(state' = "Backoff" /\ state # "Backoff")
          => state \in {"Started", "Resume"}]_vars

(***************************************************************************)
(* C17: Stopped is terminal in the actor Connection: once Cls has set the  *)
(* state to Stopped no later step changes the state, and no command is     *)
(* written to the daemon afterwards.                                       *)
(***************************************************************************)
C17_StoppedIsTerminal ==
    [][state = "Stopped" => (state' = "Stopped" /\ written' = written)]_vars

C17_Witness ==
    /\ state = "Stopped"
    /\ ctx = "stopped"
    /\ written # <<>>
    /\ items # <<>>


(***************************************************************************)
(* C20: when the response received in Neg does not decode as a negotiation *)
(* payload the actor Connection is stopped without a retry in place: on    *)
(* that connection (until a later TCP connect replaces the cell) the state *)
(* does not advance towards Started, and no Auth, Subscribe or Ready       *)
(* command is written after the malformed response.                        *)
(***************************************************************************)
WrittenSince(n) == {written[i].cmd : i \in (n + 1)..Len(written)}

C20_MalformedNegotiationStops ==
    malformed # NoMalformed =>
        /\ state \notin {"Auth", "Sub", "Ready", "Started"}
        /\ WrittenSince(malformed) \cap {"Auth", "Sub", "Rdy"} = {}

(***************************************************************************)
(* C21: the local rdy field of the actor Connection equals the count of    *)
(* the last Ready command written to the socket, whether it was written by *)
(* the Ready handler, on entering Backoff (Ready(0)) or by Resume          *)
(* (Ready(1)).                                                             *)
(***************************************************************************)
WritesRdy ==
    /\ Len(written') = Len(written) + 1
    /\ written'[Len(written')].cmd = "Rdy"

C21_RdyMirrorsLastReady ==
    [][(WritesRdy /\ ~HandleCommand)
          => rdy' = written'[Len(written')].arg]_vars

(***************************************************************************)
(* C22: the state Resume is entered only from Backoff: whenever the Resume *)
(* that NsqBackoff scheduled is handled and sets the state to Resume, the  *)
(* state immediately before was Backoff.                                   *)
(***************************************************************************)
C22_ResumeOnlyFromBackoff ==
    [][(ResumeTimer /\ state' = "Resume") => state = "Backoff"]_vars


(***************************************************************************)
(* C29: an NsqBackoff or Resume message handled while the connection is    *)
(* down (no write half) leaves state, rdy and in_flight unchanged, writes  *)
(* no command and schedules no Resume: it only raises the not-connected    *)
(* error on the stream. Each NsqBackoff handled while connected writes     *)
(* exactly one Ready(0) and schedules exactly one Resume.                  *)
(***************************************************************************)
BackoffOrResume == RecvNsqBackoff \/ RecvResume \/ ResumeTimer

C29_BackoffNeedsConnection ==
    [][/\ (BackoffOrResume /\ ~cell) =>
              /\ state' = state
              /\ rdy' = rdy
              /\ in_flight' = in_flight
              /\ written' = written
              /\ resume_timers' <= resume_timers
              /\ err_pending'
       /\ (RecvNsqBackoff /\ cell) =>
              /\ written' = Append(written, RdyCmd(0))
              /\ resume_timers' = resume_timers + 1]_vars


(***************************************************************************)
(* C28: message dispatch is a round-robin over the registered handlers:    *)
(* the index used is within 0..handlers.len()-1, handler_ready is within   *)
(* 0..handlers.len() in every reachable state, and with a fixed set of n   *)
(* handlers any n consecutive messages go to n distinct handlers.          *)
(***************************************************************************)
Distinct(q) == \A i, j \in 1..Len(q) : q[i] = q[j] => i = j

\* Every n consecutive entries of q are distinct.
Windows(q, n) ==
    \A k \in 1..(Len(q) - n + 1) : Distinct(SubSeq(q, k, k + n - 1))

IsRoute(x) == x # Restarted

\* As stated: restarts of the actor do not interrupt the sequence of messages.
C28_RoundRobin ==
    /\ handler_ready \in 0..Len(handlers)
    /\ \A i \in 1..Len(routes) :
          IsRoute(routes[i]) => routes[i] \in 0..(Len(handlers) - 1)
    /\ Windows(SelectSeq(routes, IsRoute), Len(handlers))

\* As amended: the n consecutive messages are dispatched in one run of the
\* actor, with no restart between them.
C28_RoundRobinInOneRun ==
    /\ handler_ready \in 0..Len(handlers)
    /\ \A i \in 1..Len(routes) :
          IsRoute(routes[i]) => routes[i] \in 0..(Len(handlers) - 1)
    /\ \A k \in 1..(Len(routes) - Len(handlers) + 1) :
          LET w == SubSeq(routes, k, k + Len(handlers) - 1)
          IN  (\A i \in 1..Len(w) : IsRoute(w[i])) => Distinct(w)

C28_Witness ==
    /\ Len(handlers) = 2
    /\ routes = <<0, 1, 0>>
    /\ ctx = "running"


(***************************************************************************)
(* C27: in_flight is incremented only for a message handed to a registered *)
(* handler: a delivered message for which no handler is registered or      *)
(* whose hand-off fails leaves it unchanged, and in_flight always equals   *)
(* the number of messages handed to handlers minus the number of Fin       *)
(* commands handled.                                                       *)
(***************************************************************************)
C27_InFlightCountsHandOffs ==
    /\ fins <= handed
    /\ in_flight = U32Of(handed - fins)


(***************************************************************************)
(* C26: the heartbeat watchdog timestamp is reset only when an actual      *)
(* heartbeat has been received, that is, when the heartbeat flag is set    *)
(* and answered; no other event (message frames, responses, control or     *)
(* internal wakes, poll timeouts) resets it.                               *)
(***************************************************************************)
C26_ResetOnlyOnHeartbeat ==
    [][(hb_expired /\ ~hb_expired')
          => /\ Handling("CONN_W")
             /\ conn_state = "Started"
             /\ heartbeat
             /\ Nops(sent') = Nops(sent) + 1]_vars

C26_Witness ==
    /\ watchdogs = 1
    /\ ~hb_expired
    /\ conn_state = "Started"
    /\ Nops(sent) = 1
    /\ frames > 0


(***************************************************************************)
(* C25: a worker thread never exits its loop: on the sentinel payload it   *)
(* invokes on_close once and waits again, on any other payload it invokes  *)
(* on_msg once, and each payload put on the message queue is consumed by   *)
(* exactly one worker.                                                     *)
(***************************************************************************)
RECURSIVE Total(_, _)
Total(f, n) == IF n = 0 THEN 0 ELSE f[n] + Total(f, n - 1)

Waiting(q, p) == Cardinality({i \in 1..Len(q) : q[i] = p})

C25_WorkersConsumeEachPayloadOnce ==
    /\ Total(on_msg, NWorkers) + Waiting(msg_channel, "msg") = frames
    /\ Total(on_close, NWorkers) + Waiting(msg_channel, Sentinel)
          = closes + watchdogs
    /\ (Running /\ msg_channel # <<>>) => \A w \in Workers : ENABLED WorkerRecv(w)

C25_Witness ==
    /\ on_close[1] = 1
    /\ on_msg[1] = 1
    /\ on_msg[2] = 1
    /\ msg_channel = <<>>


(***************************************************************************)
(* C24: when the negotiation response advertises TLS, no protocol command  *)
(* (Auth, Subscribe, Ready) is sent between that response and the          *)
(* completion of the TLS step (the response consumed in state Tls); the    *)
(* authentication check and the move to Auth or Subscribe come after it.   *)
(***************************************************************************)
TlsDone ==
    \E i \in 1..(Len(visited) - 1) :
        visited[i] = "Tls" /\ visited[i + 1] \in {"Auth", "Subscribe"}

C24_NothingSentBeforeTlsDone ==
    (nsqd_config.tls_v1 /\ ~TlsDone) =>
        /\ conn_state \in {"Identify", "Tls", "Stopped"}
        /\ \A i \in 1..Len(sent) : sent[i].cmd \notin {"Auth", "Sub", "Rdy"}
        /\ (loop_pc = "exited" => conn_state = "Tls")

C24_Witness ==
    /\ nsqd_config.tls_v1
    /\ nsqd_config.auth_required
    /\ visited = <<"Identify", "Tls", "Auth", "Subscribe", "Rdy", "Started">>
    /\ Sent("Auth") # {}


(***************************************************************************)
(* C23: while the connection stays up, every entry into Backoff is         *)
(* eventually followed by Resume and then by a return to Started once      *)
(* message processing continues, with no Ready message sent by another     *)
(* actor. Stated for the entries into Backoff made after the subscription  *)
(* was opened (Sub written and a Ready with a positive count).             *)
(***************************************************************************)
Opened ==
    /\ \E i \in 1..Len(written) : written[i] = SubCmd
    /\ \E i \in 1..Len(written) : written[i].cmd = "Rdy" /\ written[i].arg > 0

====
